---------------------------- MODULE Spec2Model ----------------------------
(***************************************************************************)
(* WeChatService (services/wechat.js): five asynchronous one-shot requests *)
(* against the WeChat mini-program API, issued through axios.              *)
(*                                                                         *)
(* Every invocation of an operation is a call c.  A call runs its          *)
(* synchronous prefix (signing, URL construction, handing the request to   *)
(* axios), is suspended at `await axios(...)`, and is resumed after the    *)
(* axios promise has been settled.  The remote side and the network are    *)
(* nondeterministic: they may answer with any status and body of the       *)
(* bounded sets below, fail, or stay silent.                               *)
(***************************************************************************)
EXTENDS Naturals, Sequences, FiniteSets, TLC

(***************************************************************************)
(* Bounds of the model.                                                    *)
(***************************************************************************)
MaxCalls == 2

Calls == 1..MaxCalls

(***************************************************************************)
(* State.  Per call c: the operation invoked and its arguments, where the  *)
(* call stands, the requests it has handed to axios, how its axios promise *)
(* was settled, and how the call ended.                                    *)
(***************************************************************************)
VARIABLES op, args, pc, sent, delivery, outcome

vars == <<op, args, pc, sent, delivery, outcome>>

(***************************************************************************)
(* Inputs the caller may pass: the access token and the session key of one *)
(* of two users, an open identifier, a login code.                         *)
(***************************************************************************)
Credentials ==
  {[accessToken |-> "token-1", sessionKey |-> "sk-1"],
   [accessToken |-> "token-2", sessionKey |-> "sk-2"]}
OpenIds == {"oid-1"}
Codes == {"test-code"}

Ops == {"obtainAccessToken", "obtainTelephone", "obtainOpenId",
        "verifySession", "fetchUser"}

NoArgs ==
  [openId |-> "undefined", accessToken |-> "undefined",
   sessionKey |-> "undefined", code |-> "undefined"]

(***************************************************************************)
(* modules/vars.js: the configuration object.  The environment lookups     *)
(* take their `??` defaults.  The object has no APP_ID and no APP_SECRET   *)
(* key, so a property read of either yields undefined, which a template    *)
(* literal renders as the text "undefined".                                *)
(***************************************************************************)
VARS ==
  [APP_CONTEXT |-> "",
   IOT_API_ENDPOINT |-> "https://openapi.tuyacn.com",
   IOT_CLIENT_ID |-> "",
   IOT_CLIENT_SECRET |-> ""]

Prop(obj, key) == IF key \in DOMAIN obj THEN obj[key] ELSE "undefined"

(***************************************************************************)
(* http-manager.js is not part of the sources at hand; these follow the    *)
(* specification: status codes OK and BAD_REQUEST, one "bad request"       *)
(* failure kind that carries the triggering cause.                         *)
(***************************************************************************)
httpCodes == [OK |-> 200, BAD_REQUEST |-> 400]

httpMessages == [BAD_REQUEST |-> "Bad Request"]

Undefined == [name |-> "undefined"]

httpError(code, message, cause) ==
  [name |-> "HttpError", code |-> code, message |-> message, cause |-> cause]

(***************************************************************************)
(* services/utility.js is not part of the sources at hand; sign follows    *)
(* the specification: the HMAC-SHA256 of message under key.  The digest is *)
(* kept symbolic, as an idealised (collision-free) keyed hash.             *)
(***************************************************************************)
sign(message, key) == <<"hmac_sha256", message, key>>

(***************************************************************************)
(* The request each operation hands to axios: the URL (endpoint and the    *)
(* query parameters in the order of the template literal, each with the    *)
(* separator written between its name and its value), and the options.     *)
(***************************************************************************)
Param(name, sep, value) == [name |-> name, sep |-> sep, value |-> value]

JsonHeaders == [ContentType |-> "application/json"]

obtainAccessTokenRequest ==
  [endpoint |-> "https://api.weixin.qq.com/cgi-bin/token",
   query |-> << Param("grant_type", "=", "client_credential"),
                Param("appid", "=", Prop(VARS, "APP_ID")),
                Param("secret", "=", Prop(VARS, "APP_SECRET")) >>,
   method |-> "GET",
   data |-> NoArgs,
   headers |-> JsonHeaders]

obtainTelephoneRequest(accessToken, code, openid) ==
  [endpoint |-> "https://api.weixin.qq.com/wxa/business/getuserphonenumber",
   query |-> << Param("access_token", "=", accessToken) >>,
   method |-> "POST",
   data |-> [NoArgs EXCEPT !.code = code, !.openId = openid],
   headers |-> JsonHeaders]

obtainOpenIdRequest(code) ==
  [endpoint |-> "https://api.weixin.qq.com/sns/jscode2session",
   query |-> << Param("appid", "=", Prop(VARS, "APP_ID")),
                Param("secret", "=", Prop(VARS, "APP_SECRET")),
                Param("js_code", "=", code),
                Param("grant_type", "=", "authorization_code") >>,
   method |-> "GET",
   data |-> NoArgs,
   headers |-> JsonHeaders]

SignedQuery(openId, accessToken, signature) ==
  << Param("access_token", "==", accessToken),
     Param("openid", "=", openId),
     Param("signature", "=", signature),
     Param("sig_method", "=", "hmac_sha256") >>

(* A variant of fetchUserRequest that signs with the access token.          *)
fetchUserRequestSignsToken(openId, accessToken, sessionKey) ==
  [endpoint |-> "https://api.weixin.qq.com/wxa/getuserencryptkey",
   query |-> SignedQuery(openId, accessToken, sign("", accessToken)),
   method |-> "GET",
   data |-> NoArgs,
   headers |-> JsonHeaders]

(* A variant of fetchUserRequest that prefers a token kept from the latest *)
(* completed obtainAccessToken over the token it is passed.                *)
fetchUserRequestCachedToken(openId, accessToken, sessionKey) ==
  LET holders == {k \in Calls : /\ op[k] = "obtainAccessToken"
                                /\ outcome[k].kind = "returned"
                                /\ "access_token" \in DOMAIN outcome[k].value}
      token == IF holders = {}
                 THEN accessToken
                 ELSE outcome[CHOOSE k \in holders : \A j \in holders : j <= k]
                        .value.access_token
  IN [endpoint |-> "https://api.weixin.qq.com/wxa/getuserencryptkey",
      query |-> SignedQuery(openId, token, sign("", sessionKey)),
      method |-> "GET",
      data |-> NoArgs,
      headers |-> JsonHeaders]

verifySessionRequest(openId, accessToken, sessionKey) ==
  [endpoint |-> "https://api.weixin.qq.com/wxa/checksession",
   query |-> SignedQuery(openId, accessToken, sign("", sessionKey)),
   method |-> "GET",
   data |-> NoArgs,
   headers |-> JsonHeaders]

fetchUserRequest(openId, accessToken, sessionKey) ==
  [endpoint |-> "https://api.weixin.qq.com/wxa/getuserencryptkey",
   query |-> SignedQuery(openId, accessToken, sign("", sessionKey)),
   method |-> "GET",
   data |-> NoArgs,
   headers |-> JsonHeaders]

RequestOf(o, a) ==
  CASE o = "obtainAccessToken" -> obtainAccessTokenRequest
    [] o = "obtainTelephone" -> obtainTelephoneRequest(a.accessToken, a.code, a.openId)
    [] o = "obtainOpenId" -> obtainOpenIdRequest(a.code)
    [] o = "verifySession" -> verifySessionRequest(a.openId, a.accessToken, a.sessionKey)
    [] o = "fetchUser" -> fetchUserRequest(a.openId, a.accessToken, a.sessionKey)

(***************************************************************************)
(* The remote side.  Response bodies are JSON objects; a key that is not   *)
(* in the object is not in the record's domain.                            *)
(***************************************************************************)
TokenBody == [access_token |-> "token-1", expires_in |-> 7200]

OpenIdBody == [openid |-> "oid-1", session_key |-> "sk-1"]

PhoneBody ==
  [errcode |-> 0, errmsg |-> "ok",
   phone_info |-> [phoneNumber |-> "+8613800000000", countryCode |-> "86"]]

BaseBody == [errcode |-> 0, errmsg |-> "ok"]

ProfileBody ==
  [errcode |-> 0, errmsg |-> "ok",
   key_info_list |-> << [encrypt_key |-> "key-1", version |-> 2],
                        [encrypt_key |-> "key-0", version |-> 1] >>]

EmptyProfileBody == [errcode |-> 0, errmsg |-> "ok", key_info_list |-> << >>]

ErrorBody == [errcode |-> 40029, errmsg |-> "invalid code"]

ErrorProfileBody ==
  [errcode |-> 40029, errmsg |-> "invalid code", key_info_list |-> << >>]

WellFormedBody(o) ==
  CASE o = "obtainAccessToken" -> TokenBody
    [] o = "obtainTelephone" -> PhoneBody
    [] o = "obtainOpenId" -> OpenIdBody
    [] o = "verifySession" -> BaseBody
    [] o = "fetchUser" -> ProfileBody

Response(status, data) == [status |-> status, data |-> data]

Responses(o) ==
  IF o \in Ops
    THEN {Response(200, WellFormedBody(o)), Response(200, ErrorBody),
          Response(201, WellFormedBody(o)), Response(404, ErrorBody)}
           \cup (IF o = "fetchUser"
                   THEN {Response(200, EmptyProfileBody),
                         Response(200, ErrorProfileBody)}
                   ELSE {})
    ELSE {}

IndicatesFailure(body) == "errcode" \in DOMAIN body /\ body.errcode # 0

(***************************************************************************)
(* axios, called without a validateStatus option: the promise is resolved  *)
(* with the response for a 2xx status and rejected with an AxiosError that *)
(* holds the response for any other status; a network failure rejects it   *)
(* with an AxiosError that holds no response.                              *)
(***************************************************************************)
validateStatus(status) == status >= 200 /\ status < 300

NetworkError == [name |-> "AxiosError", errno |-> "ERR_NETWORK"]

BadStatusError(response) ==
  [name |-> "AxiosError", errno |-> "ERR_BAD_RESPONSE", response |-> response]

NotSettled == [kind |-> "pending"]

Resolved(response) == [kind |-> "resolved", response |-> response]

Rejected(error) == [kind |-> "rejected", error |-> error]

settle(response) ==
  IF validateStatus(response.status)
    THEN Resolved(response)
    ELSE Rejected(BadStatusError(response))

(***************************************************************************)
(* What an operation does once the awaited promise is settled: the rest of *)
(* its try block, or its catch block.  dataRead records whether            *)
(* response.data was read on the way.                                      *)
(***************************************************************************)
NoOutcome == [kind |-> "none"]

Returned(payload) == [kind |-> "returned", value |-> payload, dataRead |-> TRUE]

Thrown(error, dataRead) == [kind |-> "thrown", error |-> error, dataRead |-> dataRead]

TypeError == [name |-> "TypeError"]

BadRequest(cause) ==
  httpError(httpCodes.BAD_REQUEST, httpMessages.BAD_REQUEST, cause)

obtainAccessTokenResume(d) ==
  IF d.kind = "rejected"
    THEN Thrown(BadRequest(d.error), FALSE)
    ELSE Returned(d.response.data)

obtainTelephoneResume(d) ==
  IF d.kind = "rejected"
    THEN Thrown(BadRequest(d.error), FALSE)
    ELSE Returned(d.response.data)

obtainOpenIdResume(d) ==
  IF d.kind = "rejected"
    THEN Thrown(BadRequest(d.error), FALSE)
    ELSE Returned(d.response.data)

(* A variant of verifySessionResume whose catch block drops the cause.     *)
verifySessionResumeDropsCause(d) ==
  IF d.kind = "rejected"
    THEN Thrown(BadRequest(Undefined), FALSE)
    ELSE Returned(d.response.data)

verifySessionResume(d) ==
  IF d.kind = "rejected"
    THEN Thrown(BadRequest(d.error), FALSE)
    ELSE Returned(d.response.data)

(* A variant of fetchUserResume without the status check.                  *)
fetchUserResumeNoStatusCheck(d) ==
  IF d.kind = "rejected"
    THEN Thrown(BadRequest(d.error), FALSE)
    ELSE LET payload == d.response.data IN
         IF "key_info_list" \in DOMAIN payload
           THEN Returned(payload)
           ELSE Thrown(BadRequest(TypeError), TRUE)

(* A variant of fetchUserResume that takes the first entry out of the list *)
(* (shift() for [0]) before it returns the payload.                        *)
fetchUserResumeShifts(d) ==
  IF d.kind = "rejected"
    THEN Thrown(BadRequest(d.error), FALSE)
    ELSE IF d.response.status = httpCodes.OK
      THEN LET payload == d.response.data IN
           IF "key_info_list" \in DOMAIN payload
             THEN Returned([payload EXCEPT
                              !.key_info_list = IF @ = << >> THEN @ ELSE Tail(@)])
             ELSE Thrown(BadRequest(TypeError), TRUE)
      ELSE Thrown(BadRequest(BadRequest(Undefined)), FALSE)

(* A variant of fetchUserResume that fails on an empty key-info list.      *)
fetchUserResumeGuardsEmpty(d) ==
  IF d.kind = "rejected"
    THEN Thrown(BadRequest(d.error), FALSE)
    ELSE IF d.response.status = httpCodes.OK
      THEN LET payload == d.response.data IN
           IF "key_info_list" \in DOMAIN payload
             THEN IF payload.key_info_list = << >>
                    THEN Thrown(BadRequest(TypeError), TRUE)
                    ELSE Returned(payload)
             ELSE Thrown(BadRequest(TypeError), TRUE)
      ELSE Thrown(BadRequest(BadRequest(Undefined)), FALSE)

(***************************************************************************)
(* fetchUser: the status check precedes the read of response.data.  The    *)
(* lookup key_info_list[0] throws a TypeError when the payload has no      *)
(* key_info_list and yields undefined, without throwing, when the list is  *)
(* empty.  Whatever is thrown inside the try block, the bad-request error  *)
(* of the status check included, is caught and wrapped by the catch block. *)
(***************************************************************************)
fetchUserResume(d) ==
  IF d.kind = "rejected"
    THEN Thrown(BadRequest(d.error), FALSE)
    ELSE IF d.response.status = httpCodes.OK
      THEN LET payload == d.response.data IN
           IF "key_info_list" \in DOMAIN payload
             THEN Returned(payload)
             ELSE Thrown(BadRequest(TypeError), TRUE)
      ELSE Thrown(BadRequest(BadRequest(Undefined)), FALSE)

Continuation(o, d) ==
  CASE o = "obtainAccessToken" -> obtainAccessTokenResume(d)
    [] o = "obtainTelephone" -> obtainTelephoneResume(d)
    [] o = "obtainOpenId" -> obtainOpenIdResume(d)
    [] o = "verifySession" -> verifySessionResume(d)
    [] o = "fetchUser" -> fetchUserResume(d)

Init ==
  /\ op = [c \in Calls |-> "none"]
  /\ args = [c \in Calls |-> NoArgs]
  /\ pc = [c \in Calls |-> "idle"]
  /\ sent = [c \in Calls |-> << >>]
  /\ delivery = [c \in Calls |-> NotSettled]
  /\ outcome = [c \in Calls |-> NoOutcome]

(***************************************************************************)
(* Invocation: the synchronous prefix of the async function, up to its     *)
(* await.  Calls are numbered in the order of their invocation.            *)
(***************************************************************************)
CanInvoke(c) == pc[c] = "idle" /\ (IF c = 1 THEN TRUE ELSE pc[c - 1] # "idle")

Invoke(c, o, a) ==
  /\ CanInvoke(c)
  /\ op' = [op EXCEPT ![c] = o]
  /\ args' = [args EXCEPT ![c] = a]
  /\ sent' = [sent EXCEPT ![c] = Append(sent[c], RequestOf(o, a))]
  /\ pc' = [pc EXCEPT ![c] = "awaiting"]
  /\ UNCHANGED <<delivery, outcome>>

obtainAccessToken(c) == Invoke(c, "obtainAccessToken", NoArgs)

obtainTelephone(c, accessToken, code, openid) ==
  Invoke(c, "obtainTelephone",
         [NoArgs EXCEPT !.accessToken = accessToken, !.code = code, !.openId = openid])

obtainOpenId(c, code) == Invoke(c, "obtainOpenId", [NoArgs EXCEPT !.code = code])

verifySession(c, openId, accessToken, sessionKey) ==
  Invoke(c, "verifySession",
         [NoArgs EXCEPT !.openId = openId, !.accessToken = accessToken,
                        !.sessionKey = sessionKey])

fetchUser(c, openId, accessToken, sessionKey) ==
  Invoke(c, "fetchUser",
         [NoArgs EXCEPT !.openId = openId, !.accessToken = accessToken,
                        !.sessionKey = sessionKey])

(***************************************************************************)
(* The transport settles the promise of an outstanding request.            *)
(***************************************************************************)
RemoteResponds(c, response) ==
  /\ pc[c] = "awaiting"
  /\ delivery' = [delivery EXCEPT ![c] = settle(response)]
  /\ pc' = [pc EXCEPT ![c] = "settled"]
  /\ UNCHANGED <<op, args, sent, outcome>>

NetworkFails(c) ==
  /\ pc[c] = "awaiting"
  /\ delivery' = [delivery EXCEPT ![c] = Rejected(NetworkError)]
  /\ pc' = [pc EXCEPT ![c] = "settled"]
  /\ UNCHANGED <<op, args, sent, outcome>>

(***************************************************************************)
(* The suspended call is resumed and runs to its end.                      *)
(* A variant of Resume that sends the request once more after a rejection. *)
ResumeRetries(c) ==
  /\ pc[c] = "settled"
  /\ IF delivery[c].kind = "rejected" /\ Len(sent[c]) < 2
       THEN /\ sent' = [sent EXCEPT ![c] = Append(sent[c], RequestOf(op[c], args[c]))]
            /\ delivery' = [delivery EXCEPT ![c] = NotSettled]
            /\ pc' = [pc EXCEPT ![c] = "awaiting"]
            /\ UNCHANGED <<op, args, outcome>>
       ELSE /\ outcome' = [outcome EXCEPT ![c] = Continuation(op[c], delivery[c])]
            /\ pc' = [pc EXCEPT ![c] = "done"]
            /\ UNCHANGED <<op, args, sent, delivery>>

(* A variant of Resume with a timeout of its own: it may give up on a      *)
(* request the transport has not answered.                                 *)
ResumeTimesOut(c) ==
  \/ /\ pc[c] = "settled"
     /\ outcome' = [outcome EXCEPT ![c] = Continuation(op[c], delivery[c])]
     /\ pc' = [pc EXCEPT ![c] = "done"]
     /\ UNCHANGED <<op, args, sent, delivery>>
  \/ /\ pc[c] = "awaiting"
     /\ outcome' = [outcome EXCEPT ![c] = Thrown(BadRequest(Undefined), FALSE)]
     /\ pc' = [pc EXCEPT ![c] = "done"]
     /\ UNCHANGED <<op, args, sent, delivery>>

(***************************************************************************)
Resume(c) ==
  /\ pc[c] = "settled"
  /\ outcome' = [outcome EXCEPT ![c] = Continuation(op[c], delivery[c])]
  /\ pc' = [pc EXCEPT ![c] = "done"]
  /\ UNCHANGED <<op, args, sent, delivery>>

Step(credentials) ==
  \E c \in Calls :
    \/ obtainAccessToken(c)
    \/ \E cr \in credentials, code \in Codes, openid \in OpenIds :
         obtainTelephone(c, cr.accessToken, code, openid)
    \/ \E code \in Codes : obtainOpenId(c, code)
    \/ \E openId \in OpenIds, cr \in credentials :
         verifySession(c, openId, cr.accessToken, cr.sessionKey)
    \/ \E openId \in OpenIds, cr \in credentials :
         fetchUser(c, openId, cr.accessToken, cr.sessionKey)
    \/ \E response \in Responses(op[c]) : RemoteResponds(c, response)
    \/ NetworkFails(c)
    \/ Resume(c)

Next == Step(Credentials)

Spec == Init /\ [][Next]_vars

(***************************************************************************)
(* The event loop runs every continuation whose promise is settled, so     *)
(* Resume is weakly fair; the transport is under no obligation to answer,  *)
(* so neither RemoteResponds nor NetworkFails is.  Whether a call is       *)
(* resumed does not depend on the credentials it was passed: the fair      *)
(* specification lets the caller pass those of the first user only.        *)
(***************************************************************************)
FairCredentials == {cr \in Credentials : cr.sessionKey = "sk-1"}

FairNext == Step(FairCredentials)

FairSpec == Init /\ [][FairNext]_vars /\ \A c \in Calls : WF_vars(Resume(c))

(***************************************************************************)
(* Vocabulary of the properties.                                           *)
(***************************************************************************)
Done(c) == pc[c] = "done"

HasResponse(d) ==
  \/ d.kind = "resolved"
  \/ d.kind = "rejected" /\ "response" \in DOMAIN d.error

ResponseOf(d) == IF d.kind = "resolved" THEN d.response ELSE d.error.response

IsBadRequest(o) ==
  /\ o.kind = "thrown"
  /\ o.error.name = "HttpError"
  /\ o.error.code = 400
  /\ o.error.message = "Bad Request"

PlainOps == {"obtainAccessToken", "obtainOpenId", "obtainTelephone"}

SignedOps == {"fetchUser", "verifySession"}

QueryValue(request, name) ==
  LET i == CHOOSE k \in DOMAIN request.query : request.query[k].name = name
  IN request.query[i].value

HasParam(request, name) ==
  \E k \in DOMAIN request.query : request.query[k].name = name

(***************************************************************************)
(* C1, as stated: a call whose response body carries an error code that    *)
(* indicates failure ends in a failure, never in a returned body.          *)
(***************************************************************************)
C1_FailurePayloadEndsInFailure ==
  \A c \in Calls :
    (Done(c) /\ HasResponse(delivery[c])
       /\ IndicatesFailure(ResponseOf(delivery[c]).data))
      => outcome[c].kind = "thrown"

(***************************************************************************)
(* What the code does with such a body (C1): no operation inspects the     *)
(* error code.  The call fails, with a bad request, exactly when axios     *)
(* rejected the request or, in fetchUser, the status is not 200 or the     *)
(* body has no key-info list; in every other case the body is returned to  *)
(* the caller unchanged, error code included.                              *)
(***************************************************************************)
FailurePayloadPassedThrough ==
  \A c \in Calls :
    (Done(c) /\ HasResponse(delivery[c])
       /\ IndicatesFailure(ResponseOf(delivery[c]).data))
      => LET r == ResponseOf(delivery[c])
             fails == \/ delivery[c].kind = "rejected"
                      \/ /\ op[c] = "fetchUser"
                         /\ \/ r.status # 200
                            \/ "key_info_list" \notin DOMAIN r.data
         IN IF fails
              THEN IsBadRequest(outcome[c])
              ELSE /\ outcome[c].kind = "returned"
                   /\ outcome[c].value = r.data
                   /\ IndicatesFailure(outcome[c].value)

FailurePayloadReturned ==
  \E c \in Calls :
    /\ Done(c)
    /\ op[c] = "obtainAccessToken"
    /\ delivery[c] = Resolved(Response(200, ErrorBody))
    /\ outcome[c].kind = "returned"
    /\ outcome[c].value.errcode = 40029

(***************************************************************************)
(* C2: when the axios promise is rejected with an error e, the call fails  *)
(* with the bad-request kind and the failure raised carries exactly e as   *)
(* its cause, whichever operation was invoked.                             *)
(***************************************************************************)
C2_TransportFailureIsBadRequestWithCause ==
  \A c \in Calls :
    (Done(c) /\ delivery[c].kind = "rejected")
      => /\ IsBadRequest(outcome[c])
         /\ outcome[c].error.cause = delivery[c].error

C2_Witness ==
  \E c \in Calls :
    /\ Done(c)
    /\ op[c] = "verifySession"
    /\ delivery[c] = Rejected(NetworkError)
    /\ outcome[c].kind = "thrown"
    /\ outcome[c].error.cause = NetworkError

(***************************************************************************)
(* C3: fetchUser fails with the bad-request kind whenever the response     *)
(* status is not 200, whatever the body, and does not read the body then.  *)
(***************************************************************************)
C3_FetchUserNonOkStatusFails ==
  \A c \in Calls :
    (Done(c) /\ op[c] = "fetchUser" /\ HasResponse(delivery[c])
       /\ ResponseOf(delivery[c]).status # 200)
      => /\ IsBadRequest(outcome[c])
         /\ ~outcome[c].dataRead

C3_Witness ==
  \E c \in Calls :
    /\ Done(c)
    /\ op[c] = "fetchUser"
    /\ delivery[c] = Resolved(Response(201, ProfileBody))
    /\ Len(delivery[c].response.data.key_info_list) > 0
    /\ outcome[c].kind = "thrown"

(***************************************************************************)
(* C4, as stated: obtainAccessToken, obtainOpenId and obtainTelephone fail *)
(* with the bad-request kind whenever the response status is not 200.      *)
(***************************************************************************)
C4_PlainOpsNonOkStatusFails ==
  \A c \in Calls :
    (Done(c) /\ op[c] \in PlainOps /\ HasResponse(delivery[c])
       /\ ResponseOf(delivery[c]).status # 200)
      => IsBadRequest(outcome[c])

(***************************************************************************)
(* What the code does with the status (C4): obtainAccessToken,             *)
(* obtainOpenId and obtainTelephone do not look at it.  They fail with the *)
(* bad-request kind, carrying the axios error as cause, when axios rejects *)
(* the response (a status outside 2xx); a response axios resolves is       *)
(* returned as a success whatever its status, a 2xx status other than 200  *)
(* included.                                                               *)
(***************************************************************************)
PlainOpsFollowAxios ==
  \A c \in Calls :
    (Done(c) /\ op[c] \in PlainOps /\ HasResponse(delivery[c]))
      => LET r == ResponseOf(delivery[c])
         IN IF r.status >= 200 /\ r.status < 300
              THEN /\ outcome[c].kind = "returned"
                   /\ outcome[c].value = r.data
              ELSE /\ IsBadRequest(outcome[c])
                   /\ outcome[c].error.cause = BadStatusError(r)

NonOkStatusReturned ==
  \E c \in Calls :
    /\ Done(c)
    /\ op[c] = "obtainTelephone"
    /\ delivery[c] = Resolved(Response(201, PhoneBody))
    /\ outcome[c].kind = "returned"
    /\ outcome[c].value = PhoneBody

(***************************************************************************)
(* C5: a call hands exactly one request to axios over its whole lifetime,  *)
(* whether the request succeeds, is answered with a non-OK status or fails *)
(* at the transport.                                                       *)
(***************************************************************************)
C5_ExactlyOneRequest ==
  \A c \in Calls : Len(sent[c]) = (IF pc[c] = "idle" THEN 0 ELSE 1)

C5_Witness ==
  \E c \in Calls :
    /\ Done(c)
    /\ delivery[c].kind = "rejected"
    /\ outcome[c].kind = "thrown"
    /\ Len(sent[c]) = 1

(***************************************************************************)
(* C6: the request of fetchUser and of verifySession carries the signature *)
(* sign('', sessionKey), with the session key passed to that call, and     *)
(* sig_method = hmac_sha256.                                               *)
(***************************************************************************)
C6_SignatureOfEmptyMessageUnderSessionKey ==
  \A c \in Calls :
    (pc[c] # "idle" /\ op[c] \in SignedOps)
      => \A i \in DOMAIN sent[c] :
           /\ HasParam(sent[c][i], "signature")
           /\ QueryValue(sent[c][i], "signature") = sign("", args[c].sessionKey)
           /\ HasParam(sent[c][i], "sig_method")
           /\ QueryValue(sent[c][i], "sig_method") = "hmac_sha256"

C6_Witness ==
  \E c, k \in Calls :
    /\ op[c] = "obtainOpenId"
    /\ outcome[c].kind = "returned"
    /\ "session_key" \in DOMAIN outcome[c].value
    /\ op[k] = "fetchUser"
    /\ args[k].sessionKey = outcome[c].value.session_key
    /\ Len(sent[k]) = 1
    /\ QueryValue(sent[k][1], "signature") = <<"hmac_sha256", "", "sk-1">>

(***************************************************************************)
(* C7: with status 200 and a well-formed body, obtainAccessToken,          *)
(* obtainOpenId, obtainTelephone and fetchUser return the response body    *)
(* unchanged; the first key-info entry of what fetchUser returns is the    *)
(* first key-info entry of the body.                                       *)
(***************************************************************************)
C7_WellFormedBodyReturnedUnchanged ==
  \A c \in Calls :
    (Done(c) /\ op[c] \in PlainOps \cup {"fetchUser"}
       /\ delivery[c] = Resolved(Response(200, WellFormedBody(op[c]))))
      => /\ outcome[c].kind = "returned"
         /\ outcome[c].value = delivery[c].response.data
         /\ op[c] = "fetchUser"
              => /\ Len(outcome[c].value.key_info_list) > 0
                 /\ outcome[c].value.key_info_list[1]
                      = delivery[c].response.data.key_info_list[1]

C7_Witness ==
  \E c \in Calls :
    /\ Done(c)
    /\ op[c] = "fetchUser"
    /\ delivery[c] = Resolved(Response(200, ProfileBody))
    /\ outcome[c].kind = "returned"
    /\ outcome[c].value.key_info_list[1].encrypt_key = "key-1"

(***************************************************************************)
(* C8: calls do not interfere.  Every credential in the request of a call  *)
(* is the one passed to that call (or the configuration), the outcome of a *)
(* call is the body or the failure of its own request, and a step of one   *)
(* call leaves the state of every other call as it is, under every         *)
(* interleaving of the calls in flight.                                    *)
(***************************************************************************)
CallState(c) == <<op[c], args[c], pc[c], sent[c], delivery[c], outcome[c]>>

OwnArgumentsOnly(c) ==
  \A i \in DOMAIN sent[c] :
    LET q == sent[c][i] IN
      /\ HasParam(q, "access_token") => QueryValue(q, "access_token") = args[c].accessToken
      /\ HasParam(q, "openid") => QueryValue(q, "openid") = args[c].openId
      /\ HasParam(q, "js_code") => QueryValue(q, "js_code") = args[c].code
      /\ HasParam(q, "signature") => QueryValue(q, "signature")[3] = args[c].sessionKey
      /\ HasParam(q, "appid") => QueryValue(q, "appid") = "undefined"
      /\ HasParam(q, "secret") => QueryValue(q, "secret") = "undefined"
      /\ q.data.accessToken = "undefined"
      /\ q.data.sessionKey = "undefined"
      /\ q.data.code = (IF op[c] = "obtainTelephone" THEN args[c].code ELSE "undefined")
      /\ q.data.openId = (IF op[c] = "obtainTelephone" THEN args[c].openId ELSE "undefined")

OwnResponseOnly(c) ==
  /\ outcome[c].kind = "returned"
       => /\ delivery[c].kind = "resolved"
          /\ outcome[c].value = delivery[c].response.data
  /\ outcome[c].kind = "thrown"
       => /\ IsBadRequest(outcome[c])
          /\ IF delivery[c].kind = "rejected"
               THEN outcome[c].error.cause = delivery[c].error
               ELSE /\ delivery[c].kind = "resolved"
                    /\ outcome[c].error.cause \in {TypeError, BadRequest(Undefined)}

OneCallPerStep ==
  \A c, k \in Calls :
    (c # k /\ CallState(c)' # CallState(c)) => CallState(k)' = CallState(k)

C8_CallsDoNotInterfere ==
  /\ [](\A c \in Calls : OwnArgumentsOnly(c) /\ OwnResponseOnly(c))
  /\ [][OneCallPerStep]_vars

C8_Witness ==
  \E c, k \in Calls :
    /\ op[c] = "obtainAccessToken"
    /\ outcome[c].kind = "returned"
    /\ outcome[c].value = TokenBody
    /\ op[k] = "fetchUser"
    /\ args[k].accessToken = "token-2"
    /\ Len(sent[k]) = 1
    /\ QueryValue(sent[k][1], "access_token") = "token-2"

(***************************************************************************)
(* C9: a call does not complete before the transport has settled its       *)
(* request, and has no outcome while the transport is silent; once the     *)
(* transport has settled the request the call eventually completes; it     *)
(* completes with one outcome, a returned payload or a bad-request         *)
(* failure, which it keeps.                                                *)
(***************************************************************************)
CompletedAfterDelivery(c) ==
  /\ Done(c) => /\ delivery[c].kind \in {"resolved", "rejected"}
                /\ outcome[c].kind = "returned" \/ IsBadRequest(outcome[c])
  /\ ~Done(c) => outcome[c] = NoOutcome
  /\ pc[c] = "awaiting" => delivery[c] = NotSettled

OutcomeKept(c) ==
  Done(c) => /\ pc'[c] = "done"
             /\ outcome'[c] = outcome[c]
             /\ sent'[c] = sent[c]

C9_CompletionFollowsTransport ==
  /\ [](\A c \in Calls : CompletedAfterDelivery(c))
  /\ \A c \in Calls : (pc[c] = "settled") ~> Done(c)
  /\ [][\A c \in Calls : OutcomeKept(c)]_vars

C9_Witness ==
  \E c, k \in Calls :
    /\ Done(c)
    /\ delivery[c].kind = "resolved"
    /\ outcome[c].kind = "returned"
    /\ pc[k] = "awaiting"
    /\ outcome[k] = NoOutcome

(***************************************************************************)
(* C10: with status 200 and a body whose key-info list is empty, the       *)
(* lookup of the first entry raises nothing and fetchUser returns the      *)
(* payload, with its empty list, as a success.                             *)
(***************************************************************************)
C10_EmptyKeyInfoListReturned ==
  \A c \in Calls :
    (Done(c) /\ op[c] = "fetchUser" /\ delivery[c].kind = "resolved"
       /\ delivery[c].response.status = 200
       /\ "key_info_list" \in DOMAIN delivery[c].response.data
       /\ delivery[c].response.data.key_info_list = << >>)
      => /\ outcome[c].kind = "returned"
         /\ outcome[c].value = delivery[c].response.data
         /\ outcome[c].value.key_info_list = << >>

C10_Witness ==
  \E c \in Calls :
    /\ Done(c)
    /\ op[c] = "fetchUser"
    /\ delivery[c] = Resolved(Response(200, EmptyProfileBody))
    /\ outcome[c].kind = "returned"
    /\ outcome[c].value.key_info_list = << >>

=============================================================================
